---- MODULE Spec2Model ----
(***************************************************************************)
(* Model of the polling application: the polls and votes tables with their *)
(* constraints and row-level policies (scripts/005-fix-table-dependencies  *)
(* .sql), the two statistics functions, and the DatabaseService operations *)
(* of lib/database.ts that run against them.                               *)
(*                                                                         *)
(* Strings are sequences of one-character strings so that trim() and       *)
(* length() are computed, not assumed.  A percentage is a NUMERIC(5,2)     *)
(* value held as an integer number of hundredths (66.67 is 6667).          *)
(***************************************************************************)
EXTENDS Integers, Sequences, FiniteSets, Bags, TLC

VARIABLES polls, votes, nextId, last, rd, retired, page, form, local, dash

vars == <<polls, votes, nextId, last, rd, retired, page, form, local, dash>>

----------------------------------------------------------------------------
(* Bounds of the model *)

MaxPolls == 2
VotePolls == 1
MaxVotes == 4
MaxStatVoters == 3

(* Program constants *)

MinQuestionLen == 5
MinOptions == 2
MaxOptions == 6

----------------------------------------------------------------------------
(* Values *)

NULL == "NULL"
Anon == "anon"
Users == {"u1", "u2"}
Callers == Users \cup {Anon}
Sessions == {"s1", "s2"}
Tokens == {"t1", "t2"}
SamplePollId == 0
PollIds == SamplePollId .. MaxPolls
OptionIndexes == {-1, 0, 2}

Qhello == <<"h", "e", "l", "l", "o">>
Qpolls == <<"p", "o", "l", "l", "s", "?">>
Qshort == <<"a", "b", "c", "d">>
QuestionInputs ==
  { Qhello,
    <<" ">> \o Qhello \o <<" ">>,
    Qpolls,
    Qshort,
    <<" ", "a", "b", "c", " ">> }

LA == <<"A">>
LB == <<"B">>
LC == <<"C">>
LEmpty == <<>>
LSpace == <<" ">>
OptionInputs ==
  { <<LA, LB>>,
    <<LA, LB, LC>>,
    <<LA, LSpace, LB>>,
    <<LA, LEmpty>>,
    <<LA>> }

----------------------------------------------------------------------------
(* String helpers: String.prototype.trim and the blank filter *)

RECURSIVE TrimLeft(_)
TrimLeft(s) ==
  IF s # <<>> /\ Head(s) = " " THEN TrimLeft(Tail(s)) ELSE s

RECURSIVE TrimRight(_)
TrimRight(s) ==
  IF s # <<>> /\ s[Len(s)] = " " THEN TrimRight(SubSeq(s, 1, Len(s) - 1)) ELSE s

Trim(s) == TrimRight(TrimLeft(s))

IsNonBlank(option) == Trim(option) # <<>>

(* The filter that also trims the options it keeps *)
FilterBlankTrimmed(options) ==
  LET kept == SelectSeq(options, IsNonBlank) IN [k \in 1..Len(kept) |-> Trim(kept[k])]

FilterBlank(options) == SelectSeq(options, IsNonBlank)

----------------------------------------------------------------------------
(* Table constraints *)

(* The check that lets a question pass that is one character short *)
QuestionCheckOffByOne(question) == Len(Trim(question)) >= MinQuestionLen - 1

QuestionCheck(question) == Len(Trim(question)) >= MinQuestionLen

(* array_length of an empty array is NULL, and a CHECK whose expression is *)
(* NULL is satisfied.                                                      *)
OptionsCheck(options) == Len(options) = 0 \/ Len(options) >= MinOptions

(* The constraint named in the error message of a rejected row; CHECK     *)
(* constraints are tested in alphabetical order of their names.            *)
CheckViolated(question, options) ==
  IF ~OptionsCheck(options) THEN "polls_options_check"
  ELSE IF ~QuestionCheck(question) THEN "polls_question_check"
  ELSE NULL

(* The share_token column without its UNIQUE constraint *)
ShareTokenNotUnique(P, id, token) == FALSE

ShareTokenTaken(P, id, token) ==
  \E q \in DOMAIN P : q # id /\ P[q].share_token = token

(* The constraint declared on (poll_id, voter_ip): voter_ip is never set,   *)
(* and NULLs never collide.                                                *)
UniqueOnVoterIp(V, pollId, voterSession) ==
  \E v \in BagToSet(V) : v.poll_id = pollId /\ NULL # NULL

UniqueViolation(V, pollId, voterSession) ==
  \E v \in BagToSet(V) : v.poll_id = pollId /\ v.voter_session = voterSession

----------------------------------------------------------------------------
(* Row-level policies *)

PollSelectPolicy(caller, p) ==
  \/ (caller # Anon /\ p.user_id = caller)
  \/ p.user_id = NULL
  \/ (p.is_public /\ p.share_token # NULL)

(* The policy that asks for a signed-in user, whoever owns the row *)
PollOwnerPolicyAnyUser(caller, p) == caller # Anon

PollOwnerPolicy(caller, p) == caller # Anon /\ p.user_id = caller

VoteSelectPolicy(P, caller, v) ==
  /\ v.poll_id \in DOMAIN P
  /\ PollSelectPolicy(caller, P[v.poll_id])
  /\ (P[v.poll_id].is_public \/ PollOwnerPolicy(caller, P[v.poll_id]))

(* The insert policy without its is_public test *)
VoteInsertPolicyAnyPoll(P, caller, pollId) == pollId \in DOMAIN P

VoteInsertPolicy(P, caller, pollId) ==
  /\ pollId \in DOMAIN P
  /\ PollSelectPolicy(caller, P[pollId])
  /\ P[pollId].is_public

----------------------------------------------------------------------------
(* Initial state: the schema script's sample data, shown by one ownerless  *)
(* poll.                                                                   *)

SamplePoll ==
  [question |-> Qpolls, options |-> <<LA, LB, LC>>, user_id |-> NULL,
   is_public |-> FALSE, share_token |-> NULL]

NoOp == [op |-> "none", result |-> "ok"]
Idle == [pc |-> "idle"]

(* The null returned in place of a Poll: what a read returns when          *)
(* .single() finds no row (PGRST116)                                       *)
NoPoll == [id |-> NULL]

(* The browser before any page is open: the useState initial values of     *)
(* PublicPollPage and of the create form, no localStorage entry, and a     *)
(* dashboard that has loaded nothing.                                      *)
PageClosed ==
  [token |-> NULL, poll |-> NoPoll, selectedOption |-> <<>>, hasVoted |-> FALSE,
   isVoting |-> FALSE, voterSession |-> "", castResult |-> NULL]
EmptyForm == [question |-> <<>>, options |-> <<LEmpty, LEmpty>>]
NoEntry == [present |-> FALSE]
NoPending == [set |-> FALSE]
NoLocal ==
  [pc |-> "closed", storage |-> NoEntry, polls |-> <<>>, pending |-> NoPending,
   poll |-> NoPoll, now |-> 1, atMount |-> [mounting |-> FALSE]]
NoDash == [id \in {} |-> NoPoll]

Init ==
  /\ polls = (SamplePollId :> SamplePoll)
  /\ votes = EmptyBag
  /\ nextId = 1
  /\ last = NoOp
  /\ rd = Idle
  /\ retired = {}
  /\ page = PageClosed
  /\ form = EmptyForm
  /\ local = NoLocal
  /\ dash = NoDash

----------------------------------------------------------------------------
(* DatabaseService.castVote *)

VoteRow(pollId, optionIndex, voterSession) ==
  [poll_id |-> pollId, option_index |-> optionIndex, voter_session |-> voterSession]

CastVoteError(P, V, caller, pollId, voterSession) ==
  IF ~VoteInsertPolicy(P, caller, pollId) THEN "42501"
  ELSE IF UniqueViolation(V, pollId, voterSession) THEN "23505"
  ELSE "none"

(* The error code of a foreign-key violation taken for the unique one *)
CastVoteResultWrongCode(code) ==
  IF code = "none" THEN "ok"
  ELSE IF code = "23503" THEN "You have already voted on this poll"
  ELSE "Failed to cast vote"

CastVoteResult(code) ==
  IF code = "none" THEN "ok"
  ELSE IF code = "23505" THEN "You have already voted on this poll"
  ELSE "Failed to cast vote"

castVote(caller, pollId, optionIndex, voterSession) ==
  LET code == CastVoteError(polls, votes, caller, pollId, voterSession) IN
  /\ code = "none" => BagCardinality(votes) < MaxVotes
  /\ votes' = IF code = "none"
              THEN votes (+) SetToBag({VoteRow(pollId, optionIndex, voterSession)})
              ELSE votes
  /\ last' = [op |-> "castVote", result |-> CastVoteResult(code),
              poll |-> pollId, session |-> voterSession]
  /\ UNCHANGED <<polls, nextId, rd, retired, form, local, dash>>

----------------------------------------------------------------------------
(* The Poll object every DatabaseService read and write maps a row to *)

PollObject(P, id) ==
  [id |-> id, question |-> P[id].question, options |-> P[id].options,
   user_id |-> P[id].user_id, is_public |-> P[id].is_public,
   share_token |-> P[id].share_token]


(* DatabaseService.createPoll *)

NewPollRow(caller, question, options) ==
  [question |-> Trim(question), options |-> FilterBlank(options),
   user_id |-> caller, is_public |-> FALSE, share_token |-> NULL]

CreatePollError(caller, question, options) ==
  IF caller = Anon THEN "User not authenticated"
  ELSE IF ~QuestionCheck(Trim(question)) \/ ~OptionsCheck(FilterBlank(options))
       THEN "Failed to create poll"
  ELSE "ok"

createPoll(caller, question, options) ==
  LET result == CreatePollError(caller, question, options) IN
  /\ nextId <= MaxPolls
  /\ IF result = "ok"
     THEN /\ polls' = polls @@ (nextId :> NewPollRow(caller, question, options))
          /\ nextId' = nextId + 1
     ELSE UNCHANGED <<polls, nextId>>
  /\ last' = [op |-> "createPoll", result |-> result, question |-> Trim(question),
              message |-> IF caller = Anon THEN NULL
                          ELSE CheckViolated(Trim(question), FilterBlank(options)),
              poll |-> IF result = "ok" THEN PollObject(polls', nextId) ELSE NoPoll]
  /\ UNCHANGED <<votes, rd, retired, page, form, local, dash>>

(* DatabaseService.updatePoll *)

UpdateMatches(P, caller, id) == id \in DOMAIN P /\ PollOwnerPolicy(caller, P[id])

UpdatePollError(P, caller, id, question, options) ==
  IF ~UpdateMatches(P, caller, id) THEN "Failed to update poll"
  ELSE IF ~QuestionCheck(Trim(question)) \/ ~OptionsCheck(FilterBlank(options))
       THEN "Failed to update poll"
  ELSE "ok"

updatePoll(caller, id, question, options) ==
  LET result == UpdatePollError(polls, caller, id, question, options) IN
  /\ polls' = IF result = "ok"
              THEN [polls EXCEPT ![id].question = Trim(question),
                                 ![id].options = FilterBlank(options)]
              ELSE polls
  /\ last' = [op |-> "updatePoll", result |-> result, question |-> Trim(question),
              message |-> IF UpdateMatches(polls, caller, id)
                          THEN CheckViolated(Trim(question), FilterBlank(options))
                          ELSE NULL]
  /\ UNCHANGED <<votes, nextId, rd, retired, page, form, local, dash>>

(* DatabaseService.deletePoll; votes.poll_id is ON DELETE CASCADE *)

(* The foreign key without ON DELETE CASCADE enforcement: votes stay *)
CascadeDeleteNothing(V, id) == V

CascadeDelete(V, id) ==
  LET keep == {v \in BagToSet(V) : v.poll_id # id} IN [v \in keep |-> V[v]]

deletePoll(caller, id) ==
  /\ IF UpdateMatches(polls, caller, id)
     THEN /\ polls' = [q \in DOMAIN polls \ {id} |-> polls[q]]
          /\ votes' = CascadeDelete(votes, id)
     ELSE UNCHANGED <<polls, votes>>
  /\ last' = [op |-> "deletePoll", result |-> "ok"]
  /\ UNCHANGED <<nextId, rd, retired, page, form, local, dash>>

(* DatabaseService.generateShareLink: shareToken is random, from the       *)
(* generate_share_token function or from Math.random                       *)

GenerateShareLinkError(P, caller, pollId, shareToken) ==
  IF UpdateMatches(P, caller, pollId) /\ ShareTokenTaken(P, pollId, shareToken)
  THEN "Failed to generate share link"
  ELSE "ok"

(* The update that stores the token and leaves the poll private *)
SharedRowStillPrivate(row, shareToken) == [row EXCEPT !.share_token = shareToken]

SharedRow(row, shareToken) ==
  [row EXCEPT !.is_public = TRUE, !.share_token = shareToken]

generateShareLink(caller, pollId, shareToken) ==
  LET result == GenerateShareLinkError(polls, caller, pollId, shareToken) IN
  /\ polls' = IF result = "ok" /\ UpdateMatches(polls, caller, pollId)
              THEN [polls EXCEPT ![pollId] = SharedRow(polls[pollId], shareToken)]
              ELSE polls
  /\ last' = [op |-> "generateShareLink", result |-> result,
              shareToken |-> IF result = "ok" THEN shareToken ELSE NULL]
  /\ UNCHANGED <<votes, nextId, rd, page, form, local, dash>>

(* DatabaseService.disableSharing *)

UnsharedRow(row) == [row EXCEPT !.is_public = FALSE, !.share_token = NULL]

disableSharing(caller, pollId) ==
  /\ polls' = IF UpdateMatches(polls, caller, pollId)
              THEN [polls EXCEPT ![pollId] = UnsharedRow(polls[pollId])]
              ELSE polls
  /\ last' = [op |-> "disableSharing", result |-> "ok"]
  /\ UNCHANGED <<votes, nextId, rd, page, form, local, dash>>

----------------------------------------------------------------------------
(* ShareButton: its handlers write the polls table directly *)

(* shareToken || null: an absent or empty token is stored as NULL *)
TokenOrNull(shareToken) == IF shareToken = "" THEN NULL ELSE shareToken

UpdatePollSharingError(P, caller, pollId, shareToken) ==
  IF /\ UpdateMatches(P, caller, pollId)
     /\ TokenOrNull(shareToken) # NULL
     /\ ShareTokenTaken(P, pollId, TokenOrNull(shareToken))
  THEN "Failed to update poll sharing"
  ELSE "ok"

(* The update that writes is_public and leaves the token as it was *)
SharingRowKeepsToken(row, isPublic, shareToken) == [row EXCEPT !.is_public = isPublic]

SharingRow(row, isPublic, shareToken) ==
  [row EXCEPT !.is_public = isPublic, !.share_token = shareToken]

updatePollSharing(P, caller, pollId, isPublic, shareToken) ==
  IF /\ UpdateMatches(P, caller, pollId)
     /\ UpdatePollSharingError(P, caller, pollId, shareToken) = "ok"
  THEN [P EXCEPT ![pollId] = SharingRow(P[pollId], isPublic, TokenOrNull(shareToken))]
  ELSE P

(* The JavaScript value undefined: an argument or a property left out.    *)
Undefined == "undefined"

(* UserDashboard's polls state keeps, of each loaded poll, the two fields  *)
(* the share button reads and handleShareUpdate writes.                    *)
DashPoll(row) == [is_public |-> row.is_public, share_token |-> row.share_token]

(* UserDashboard.handleShareUpdate: setPolls with the poll of that id      *)
(* replaced by a copy carrying isPublic and shareToken.                    *)
handleShareUpdate(D, pollId, isPublic, shareToken) ==
  [id \in DOMAIN D |->
     IF id = pollId
     THEN [D[id] EXCEPT !.is_public = isPublic, !.share_token = shareToken]
     ELSE D[id]]

(* ShareButton.generateShareLink: DatabaseService.generateShareLink with   *)
(* the token shareToken; when that throws, for a token already taken or    *)
(* for any other failure of the call (threw), the locally generated        *)
(* localToken is written with updatePollSharing.                           *)
ShareButton_generateShareLink(caller, pollId, shareToken, threw, localToken) ==
  LET first == IF threw THEN "Failed to generate share link"
               ELSE GenerateShareLinkError(polls, caller, pollId, shareToken)
      second == UpdatePollSharingError(polls, caller, pollId, localToken)
  IN
  /\ polls' = IF first = "ok"
              THEN IF UpdateMatches(polls, caller, pollId)
                   THEN [polls EXCEPT ![pollId] = SharedRow(polls[pollId], shareToken)]
                   ELSE polls
              ELSE updatePollSharing(polls, caller, pollId, TRUE, localToken)
  /\ last' = [op |-> "ShareButton.generateShareLink",
              result |-> IF first = "ok" THEN "ok" ELSE second,
              shareToken |-> IF first = "ok" THEN shareToken
                             ELSE IF second = "ok" THEN localToken ELSE NULL]
  /\ dash' = IF first = "ok" THEN handleShareUpdate(dash, pollId, TRUE, shareToken)
             ELSE IF second = "ok"
                  THEN handleShareUpdate(dash, pollId, TRUE, localToken)
                  ELSE dash
  /\ UNCHANGED <<votes, nextId, rd, retired, page, form, local>>

(* ShareButton.disableSharing: updatePollSharing(pollId, false), then     *)
(* onShareUpdate(false, undefined).                                        *)
ShareButton_disableSharing(caller, pollId) ==
  /\ polls' = updatePollSharing(polls, caller, pollId, FALSE, NULL)
  /\ last' = [op |-> "ShareButton.disableSharing", result |-> "ok"]
  /\ dash' = handleShareUpdate(dash, pollId, FALSE, Undefined)
  /\ UNCHANGED <<votes, nextId, rd, retired, page, form, local>>

----------------------------------------------------------------------------
(* Reads *)

getPollById(P, caller, id) ==
  IF id \in DOMAIN P /\ PollSelectPolicy(caller, P[id])
  THEN PollObject(P, id) ELSE NoPoll

(* The query without its share_token filter *)
AnyPublicPoll(P, caller, shareToken) ==
  {id \in DOMAIN P : PollSelectPolicy(caller, P[id]) /\ P[id].is_public}

ShareTokenMatches(P, caller, shareToken) ==
  {id \in DOMAIN P : /\ PollSelectPolicy(caller, P[id])
                     /\ P[id].share_token = shareToken
                     /\ P[id].is_public}

getPollByShareToken(P, caller, shareToken) ==
  LET ids == ShareTokenMatches(P, caller, shareToken) IN
  IF Cardinality(ids) = 1 THEN PollObject(P, CHOOSE id \in ids : TRUE) ELSE NoPoll

----------------------------------------------------------------------------
(* The statistics functions.  They run with the caller's rights, so they   *)
(* read the vote rows the votes SELECT policy shows the caller.            *)

(* The vote rows read without the SELECT policy *)
VisibleVotesUnfiltered(P, V, caller) == V

VisibleVotes(P, V, caller) ==
  LET rows == {v \in BagToSet(V) : VoteSelectPolicy(P, caller, v)}
  IN [v \in rows |-> V[v]]

PollVotes(B, poll_uuid) ==
  LET rows == {v \in BagToSet(B) : v.poll_id = poll_uuid} IN [v \in rows |-> B[v]]

(* COUNT of the rows, GROUP BY v.option_index *)
VoteCount(B, poll_uuid, optionIndex) ==
  LET rows == {v \in BagToSet(B) : v.poll_id = poll_uuid /\ v.option_index = optionIndex}
  IN BagCardinality([v \in rows |-> B[v]])

get_poll_total_votes(B, poll_uuid) == BagCardinality(PollVotes(B, poll_uuid))

(* count / total with integer operands: the ::NUMERIC casts left out *)
IntegerDivisionPercent(count, total) == ((count \div total) * 100) * 100

(* ROUND((count::NUMERIC / total::NUMERIC) * 100, 2), in hundredths; ROUND *)
(* on NUMERIC rounds half away from zero.                                  *)
RoundedPercent(count, total) == (count * 20000 + total) \div (2 * total)

Percentage(count, total) == IF total > 0 THEN RoundedPercent(count, total) ELSE 0

(* ORDER BY vc.option_index *)
RECURSIVE Ascending(_)
Ascending(S) ==
  IF S = {} THEN <<>>
  ELSE LET m == CHOOSE x \in S : \A y \in S : x <= y
       IN <<m>> \o Ascending(S \ {m})

(* The rows from the highest option index down *)
RECURSIVE Descending(_)
Descending(S) ==
  IF S = {} THEN <<>>
  ELSE LET m == CHOOSE x \in S : \A y \in S : x >= y
       IN <<m>> \o Descending(S \ {m})

OrderByOptionIndex(S) == Ascending(S)

get_poll_statistics(B, poll_uuid) ==
  LET vote_counts == {v.option_index : v \in BagToSet(PollVotes(B, poll_uuid))}
      total == get_poll_total_votes(B, poll_uuid)
      order == OrderByOptionIndex(vote_counts)
  IN [k \in 1..Len(order) |->
        [option_index |-> order[k],
         vote_count |-> VoteCount(B, poll_uuid, order[k]),
         percentage |-> Percentage(VoteCount(B, poll_uuid, order[k]), total)]]

(* DatabaseService.getPollStatistics and getPollTotalVotes: an rpc error   *)
(* (rpcError) is logged and answered with [] and 0.                        *)

getPollStatisticsValue(P, V, caller, pollId, rpcError) ==
  IF rpcError THEN <<>> ELSE get_poll_statistics(VisibleVotes(P, V, caller), pollId)

getPollTotalVotesValue(P, V, caller, pollId, rpcError) ==
  IF rpcError THEN 0 ELSE get_poll_total_votes(VisibleVotes(P, V, caller), pollId)

getPollStatistics(caller, pollId, rpcError) ==
  /\ last' = [op |-> "getPollStatistics", result |-> "ok", caller |-> caller,
              poll |-> pollId, rpcError |-> rpcError,
              value |-> getPollStatisticsValue(polls, votes, caller, pollId, rpcError)]
  /\ UNCHANGED <<polls, votes, nextId, rd, retired, page, form, local, dash>>

getPollTotalVotes(caller, pollId, rpcError) ==
  /\ last' = [op |-> "getPollTotalVotes", result |-> "ok", caller |-> caller,
              poll |-> pollId, rpcError |-> rpcError,
              value |-> getPollTotalVotesValue(polls, votes, caller, pollId, rpcError)]
  /\ UNCHANGED <<polls, votes, nextId, rd, retired, page, form, local, dash>>

(* UserDashboard, vote breakdown: for each option the entry of the          *)
(* statistics with that index, or 0 votes and 0 percent when there is none *)
(* The lookup with 1-based option indexes *)
StatisticsEntriesOneBased(statistics, index) ==
  {k \in 1..Len(statistics) : statistics[k].option_index = index + 1}

StatisticsEntries(statistics, index) ==
  {k \in 1..Len(statistics) : statistics[k].option_index = index}

VoteBreakdown(options, statistics) ==
  [index \in 0..(Len(options) - 1) |->
     LET found == StatisticsEntries(statistics, index) IN
     IF found = {}
     THEN [votes |-> 0, percentage |-> 0]
     ELSE LET stats == statistics[CHOOSE k \in found : \A j \in found : k <= j]
          IN [votes |-> stats.vote_count, percentage |-> stats.percentage]]


(* getWinningOption of the public poll page and of the dashboard.  poll is *)
(* the Poll with its options and the statistics read for it; Math.max of   *)
(* the counts, Array.prototype.find for the first entry with that count.   *)
(* An option index beyond the options gives the option undefined.          *)
NoWinner == [optionIndex |-> NULL]

MathMax(counts) == CHOOSE m \in counts : \A c \in counts : m >= c

(* The last entry with the count in place of the first *)
FindLastWithCount(statistics, count) ==
  LET hits == {k \in 1..Len(statistics) : statistics[k].vote_count = count}
  IN statistics[CHOOSE k \in hits : \A j \in hits : k >= j]

FindWithCount(statistics, count) ==
  LET hits == {k \in 1..Len(statistics) : statistics[k].vote_count = count}
  IN statistics[CHOOSE k \in hits : \A j \in hits : k <= j]

OptionAt(options, index) ==
  IF index + 1 \in DOMAIN options THEN options[index + 1] ELSE Undefined

getWinningOption(poll) ==
  IF poll = NoPoll \/ Len(poll.statistics) = 0 THEN NoWinner
  ELSE LET maxVotes ==
             MathMax({poll.statistics[k].vote_count : k \in 1..Len(poll.statistics)})
           winningStats == FindWithCount(poll.statistics, maxVotes)
       IN IF maxVotes = 0 THEN NoWinner
          ELSE [option |-> OptionAt(poll.options, winningStats.option_index),
                optionIndex |-> winningStats.option_index,
                votes |-> winningStats.vote_count,
                percentage |-> winningStats.percentage]

(* The dashboard's getWinningOption returns the same without optionIndex *)
UserDashboard_getWinningOption(poll) ==
  LET winner == getWinningOption(poll) IN
  IF winner = NoWinner THEN NoWinner
  ELSE [option |-> winner.option, votes |-> winner.votes,
        percentage |-> winner.percentage]

----------------------------------------------------------------------------
(* The reads with statistics.  Each awaits the poll, then starts the       *)
(* total, the statistics and the user's vote together (Promise.all): the   *)
(* three queries reach the database one by one in any order, with other    *)
(* callers' writes in between, and the read returns when all have answered.*)
(* rd is the read in progress.                                             *)

(* DatabaseService.getUserVote: the option index when exactly one visible  *)
(* row matches, <<index>>; null, <<>>, on no row (PGRST116) or any error   *)
getUserVote(P, V, caller, pollId, voterSession, rpcError) ==
  LET B == VisibleVotes(P, V, caller)
      rows == {v \in BagToSet(B) : v.poll_id = pollId /\ v.voter_session = voterSession}
  IN IF ~rpcError /\ BagCardinality([v \in rows |-> B[v]]) = 1
     THEN <<(CHOOSE v \in rows : TRUE).option_index>>
     ELSE <<>>

(* DatabaseService.getUserPolls: the caller's polls *)
getUserPolls(P, caller) ==
  {id \in DOMAIN P : PollSelectPolicy(caller, P[id]) /\ P[id].user_id = caller}

(* UserDashboard.loadPollsWithStats: the signed-in user's polls replace    *)
(* the list; a failed load leaves it as it was.                            *)
loadPollsWithStats(caller) ==
  /\ dash' = IF caller = Anon THEN dash
             ELSE [id \in getUserPolls(polls, caller) |-> DashPoll(polls[id])]
  /\ last' = [op |-> "loadPollsWithStats",
              result |-> IF caller = Anon THEN "User not authenticated" ELSE "ok"]
  /\ UNCHANGED <<polls, votes, nextId, rd, retired, page, form, local>>

Pending(voterSession) ==
  IF voterSession = NULL
  THEN {"total_votes", "statistics"}
  ELSE {"total_votes", "statistics", "user_vote"}

Started(P, caller, ids, voterSession) ==
  [id \in ids |-> [poll |-> PollObject(P, id), pending |-> Pending(voterSession),
                   total_votes |-> 0, statistics |-> <<>>, user_vote |-> <<>>]]

Reading(op, caller, voterSession, items) ==
  [pc |-> "reading", op |-> op, caller |-> caller, session |-> voterSession,
   items |-> items]

Returned(op, result, value) ==
  [pc |-> "returned", op |-> op, result |-> result, value |-> value]

NoItems == [id \in {} |-> NoPoll]

getPollWithStats(caller, pollId, voterSession) ==
  LET poll == getPollById(polls, caller, pollId) IN
  /\ rd.pc # "reading"
  /\ rd' = IF poll = NoPoll
           THEN Returned("getPollWithStats", "null", NoItems)
           ELSE Reading("getPollWithStats", caller, voterSession,
                        Started(polls, caller, {poll.id}, voterSession))
  /\ UNCHANGED <<polls, votes, nextId, last, retired, page, form, local, dash>>

getPollByShareTokenWithStats(caller, shareToken, voterSession) ==
  LET poll == getPollByShareToken(polls, caller, shareToken) IN
  /\ rd.pc # "reading"
  /\ rd' = IF poll = NoPoll
           THEN Returned("getPollByShareTokenWithStats", "null", NoItems)
           ELSE Reading("getPollByShareTokenWithStats", caller, voterSession,
                        Started(polls, caller, {poll.id}, voterSession))
  /\ UNCHANGED <<polls, votes, nextId, last, retired, page, form, local, dash>>

getUserPollsWithStats(caller) ==
  /\ rd.pc # "reading"
  /\ rd' = IF caller = Anon
           THEN Returned("getUserPollsWithStats", "User not authenticated", NoItems)
           ELSE Reading("getUserPollsWithStats", caller, NULL,
                        Started(polls, caller, getUserPolls(polls, caller), NULL))
  /\ UNCHANGED <<polls, votes, nextId, last, retired, page, form, local, dash>>

awaitTotalVotes(id, rpcError) ==
  /\ rd.pc = "reading"
  /\ id \in DOMAIN rd.items
  /\ "total_votes" \in rd.items[id].pending
  /\ rd' = [rd EXCEPT !.items[id].pending = @ \ {"total_votes"},
                      !.items[id].total_votes =
                         getPollTotalVotesValue(polls, votes, rd.caller, id, rpcError)]
  /\ UNCHANGED <<polls, votes, nextId, last, retired, page, form, local, dash>>

awaitStatistics(id, rpcError) ==
  /\ rd.pc = "reading"
  /\ id \in DOMAIN rd.items
  /\ "statistics" \in rd.items[id].pending
  /\ rd' = [rd EXCEPT !.items[id].pending = @ \ {"statistics"},
                      !.items[id].statistics =
                         getPollStatisticsValue(polls, votes, rd.caller, id, rpcError)]
  /\ UNCHANGED <<polls, votes, nextId, last, retired, page, form, local, dash>>

awaitUserVote(id, rpcError) ==
  /\ rd.pc = "reading"
  /\ id \in DOMAIN rd.items
  /\ "user_vote" \in rd.items[id].pending
  /\ rd' = [rd EXCEPT !.items[id].pending = @ \ {"user_vote"},
                      !.items[id].user_vote =
                         getUserVote(polls, votes, rd.caller, id, rd.session, rpcError)]
  /\ UNCHANGED <<polls, votes, nextId, last, retired, page, form, local, dash>>

PollWithStats(item) ==
  [poll |-> item.poll, total_votes |-> item.total_votes,
   statistics |-> item.statistics, user_vote |-> item.user_vote]

returnWithStats ==
  /\ rd.pc = "reading"
  /\ \A id \in DOMAIN rd.items : rd.items[id].pending = {}
  /\ rd' = Returned(rd.op, "ok", [id \in DOMAIN rd.items |-> PollWithStats(rd.items[id])])
  /\ UNCHANGED <<polls, votes, nextId, last, retired, page, form, local, dash>>

----------------------------------------------------------------------------
(* PublicPollPage: the page behind a share link.  page holds its useState  *)
(* values; of the loaded PollWithStats it keeps the Poll fields, which are *)
(* all that loadPoll and handleVote read besides user_vote.  castResult is *)
(* the position of a handleVote that awaits its castVote: NULL when none   *)
(* is in flight.                                                           *)

(* An error message as its words, for String.prototype.includes *)
MessageWords(message) ==
  CASE message = "You have already voted on this poll" ->
         <<"You", "have", "already", "voted", "on", "this", "poll">>
    [] message = "Failed to cast vote" -> <<"Failed", "to", "cast", "vote">>
    [] message = "Failed to fetch poll" -> <<"Failed", "to", "fetch", "poll">>
    [] OTHER -> <<>>

Includes(words, part) ==
  \E i \in 1 .. (Len(words) - Len(part) + 1) :
    SubSeq(words, i, i + Len(part) - 1) = part

(* The test taken for one that no message passes *)
IncludesNothing(message) == FALSE

IncludesAlreadyVoted(message) ==
  Includes(MessageWords(message), <<"already", "voted">>)

(* The effect of mounting the page: a new session id from the clock and    *)
(* Math.random, then loadPoll with it.  loadError is a failure of the poll *)
(* query, rpcError one of the user-vote query (which getUserVote turns     *)
(* into null).                                                             *)
loadPoll(caller, token, sessionId, loadError, rpcError) ==
  LET pollData == getPollByShareToken(polls, caller, token)
      user_vote == IF pollData = NoPoll THEN <<>>
                   ELSE getUserVote(polls, votes, caller, pollData.id, sessionId, rpcError)
      fresh == [PageClosed EXCEPT !.token = token, !.voterSession = sessionId]
  IN
  /\ page' = IF loadError \/ pollData = NoPoll THEN fresh
             ELSE [fresh EXCEPT !.poll = pollData,
                                !.hasVoted = (user_vote # <<>>),
                                !.selectedOption = user_vote]
  /\ UNCHANGED <<polls, votes, nextId, last, rd, retired, form, local, dash>>

(* The option buttons, rendered while the poll is loaded and not voted on *)
setSelectedOption(index) ==
  /\ page.poll # NoPoll
  /\ ~page.hasVoted
  /\ index \in 0 .. (Len(page.poll.options) - 1)
  /\ page' = [page EXCEPT !.selectedOption = <<index>>]
  /\ UNCHANGED <<polls, votes, nextId, last, rd, retired, form, local, dash>>

(* handleVote up to the answer of castVote.  The button is rendered while  *)
(* the poll is loaded and not voted on, and enabled while an option is     *)
(* selected and no vote is in flight.                                      *)
handleVote(caller) ==
  /\ page.poll # NoPoll
  /\ ~page.hasVoted
  /\ page.selectedOption # <<>>
  /\ ~page.isVoting
  /\ IF page.selectedOption = <<>> \/ page.poll = NoPoll \/ page.voterSession = ""
     THEN UNCHANGED vars
     ELSE /\ castVote(caller, page.poll.id, page.selectedOption[1], page.voterSession)
          /\ page' = [page EXCEPT !.isVoting = TRUE, !.castResult = last'.result]

(* handleVote from the answer of castVote on: the reload of the poll after *)
(* a recorded vote (reloadError: the reload throws), the catch branch      *)
(* after a failed one, and the finally branch.                             *)
handleVoteReturns(caller, reloadError) ==
  LET updatedPoll == getPollByShareToken(polls, caller, page.token)
      thrown == IF page.castResult # "ok" THEN page.castResult
                ELSE IF reloadError THEN "Failed to fetch poll"
                ELSE NULL
  IN
  /\ page.isVoting
  /\ page' =
       [page EXCEPT
          !.poll = IF thrown = NULL /\ updatedPoll # NoPoll THEN updatedPoll ELSE @,
          !.hasVoted = IF thrown = NULL THEN TRUE
                       ELSE IF IncludesAlreadyVoted(thrown) THEN TRUE
                       ELSE @,
          !.isVoting = FALSE,
          !.castResult = NULL]
  /\ UNCHANGED <<polls, votes, nextId, last, rd, retired, form, local, dash>>

----------------------------------------------------------------------------
(* The poll form of PollingApp and EditPoll (the same code in the          *)
(* localStorage pages and in the database pages).  form holds the question *)
(* and the option inputs; the errors shown next to them are not kept, as   *)
(* no handler's result depends on them.                                    *)

MinFormQuestionLen == 5
RequiredOptions == 2
MinFormOptions == 2

(* validateForm.  newErrors gets the key question for an empty or short    *)
(* question and always gets the key options, whose value optionErrors has  *)
(* an entry for each of the first RequiredOptions inputs that is blank;    *)
(* Array.prototype.every passes over the entries never set.                *)
QuestionError(question) ==
  IF Trim(question) = <<>> THEN "Question is required"
  ELSE IF Len(Trim(question)) < MinFormQuestionLen
       THEN "Question must be at least 5 characters long"
  ELSE NULL

OptionErrors(options) ==
  {index \in 0 .. (Len(options) - 1) :
     index < RequiredOptions /\ ~IsNonBlank(options[index + 1])}

ErrorKeys(question, options) ==
  (IF QuestionError(question) # NULL THEN {"question"} ELSE {}) \cup {"options"}

validateForm(question, options) ==
  \/ Cardinality(ErrorKeys(question, options)) = 0
  \/ OptionErrors(options) = {}

setQuestion(value) ==
  /\ form' = [form EXCEPT !.question = value]
  /\ UNCHANGED <<polls, votes, nextId, last, rd, retired, page, local, dash>>

(* The list with one more input after the 6th *)
AddOptionUnbounded(options) == Append(options, LEmpty)

AddOption(options) ==
  IF Len(options) < MaxOptions THEN Append(options, LEmpty) ELSE options

addOption ==
  /\ form' = [form EXCEPT !.options = AddOption(@)]
  /\ UNCHANGED <<polls, votes, nextId, last, rd, retired, page, local, dash>>

RemoveAt(options, index) ==
  [k \in 1 .. (Len(options) - 1) |->
     IF k <= index THEN options[k] ELSE options[k + 1]]

removeOption(index) ==
  /\ index \in 0 .. (Len(form.options) - 1)
  /\ form' = [form EXCEPT !.options = IF Len(@) > MinFormOptions
                                      THEN RemoveAt(@, index) ELSE @]
  /\ UNCHANGED <<polls, votes, nextId, last, rd, retired, page, local, dash>>

updateOption(index, value) ==
  /\ index \in 0 .. (Len(form.options) - 1)
  /\ form' = [form EXCEPT !.options[index + 1] = value]
  /\ UNCHANGED <<polls, votes, nextId, last, rd, retired, page, local, dash>>

(* EditPoll's load: the form takes the question and options of the poll *)
FormOf(question, options) == [question |-> question, options |-> options]

(* EditPoll's load effect as far as the form goes: setQuestion and         *)
(* setOptions with the found poll's question and a copy of its options     *)
loadIntoForm(question, options) ==
  /\ form' = FormOf(question, options)
  /\ UNCHANGED <<polls, votes, nextId, last, rd, retired, page, local, dash>>

----------------------------------------------------------------------------
(* The localStorage pages: PollingApp (app/page.tsx) and EditPoll          *)
(* (app/edit/[id]/page.tsx).  local.storage is the localStorage entry      *)
(* "polls" (NoEntry when absent), local.polls the polls state of PollingApp,  *)
(* local.pending a setPolls made by an effect and not rendered yet,        *)
(* local.poll the poll that EditPoll found, local.now the clock that       *)
(* gives ids.  local.pc is the page and the position of its effects:       *)
(*   closed  no page is open                                               *)
(*   load    PollingApp has rendered for the first time; the load effect   *)
(*           is next, then the save effect (save)                          *)
(*   render  the load effect's setPolls awaits its render, whose save      *)
(*           effect follows (resave)                                       *)
(*   changed a handler has set polls; the save effect is next              *)
(*   ready   PollingApp waits for the user                                 *)
(*   edit    EditPoll waits for the user                                   *)
(* React runs a render's effects before it handles the next event, so the  *)
(* handlers wait for ready or edit; the tab can be closed at any point.    *)
(* local.atMount remembers, while PollingApp mounts, the entry that the    *)
(* mount found (history, read by no handler).                              *)

NotMounting == [mounting |-> FALSE]

(* JSON.stringify and JSON.parse of a list of polls, whose fields are      *)
(* strings and arrays of strings                                           *)
JSONstringify(list) == [present |-> TRUE, json |-> list]
JSONparse(text) == text.json

(* A setPolls that awaits its render *)
SetPolls(list) == [set |-> TRUE, value |-> list]

LocalPoll(id, question, options, createdAt) ==
  [id |-> id, question |-> question, options |-> options, createdAt |-> createdAt]

(* The first render of PollingApp: by opening the page, or router.push("/") *)
MountedPollingApp(storage, now) ==
  [pc |-> "load", storage |-> storage, polls |-> <<>>, pending |-> NoPending,
   poll |-> NoPoll, now |-> now,
   atMount |-> [mounting |-> TRUE, storage |-> storage]]

PollingApp_mount ==
  /\ local.pc = "closed"
  /\ local' = MountedPollingApp(local.storage, local.now)
  /\ form' = EmptyForm
  /\ UNCHANGED <<polls, votes, nextId, last, rd, retired, page, dash>>

(* The load effect *)
loadEffect ==
  /\ local.pc = "load"
  /\ local' = [local EXCEPT
                 !.pending = IF local.storage # NoEntry
                             THEN SetPolls(JSONparse(local.storage))
                             ELSE NoPending,
                 !.pc = "save"]
  /\ UNCHANGED <<polls, votes, nextId, last, rd, retired, page, form, dash>>

(* The position after a save effect that never waits for a render *)
AfterSaveWithoutRender(pc, pending) == "ready"

AfterSave(pc, pending) ==
  IF pc = "save" /\ pending # NoPending THEN "render" ELSE "ready"

(* The save effect: after the first render, and after each render with a   *)
(* changed polls                                                           *)
saveEffect ==
  /\ local.pc \in {"save", "resave", "changed"}
  /\ local' = [local EXCEPT
                 !.storage = JSONstringify(local.polls),
                 !.pc = AfterSave(local.pc, local.pending)]
  /\ UNCHANGED <<polls, votes, nextId, last, rd, retired, page, form, dash>>

(* The render that the load effect's setPolls asked for *)
renderLoaded ==
  /\ local.pc = "render"
  /\ local' = [local EXCEPT !.polls = local.pending.value, !.pending = NoPending,
                            !.pc = "resave"]
  /\ UNCHANGED <<polls, votes, nextId, last, rd, retired, page, form, dash>>

(* PollingApp.createPoll: createdAt is today's date, the id the clock *)
PollingApp_createPoll(createdAt) ==
  LET newPoll == LocalPoll(local.now, Trim(form.question),
                           FilterBlank(form.options), createdAt)
  IN
  /\ local.pc = "ready"
  /\ local.now <= MaxPolls
  /\ IF ~validateForm(form.question, form.options)
     THEN UNCHANGED <<local, form>>
     ELSE /\ local' = [local EXCEPT !.polls = <<newPoll>> \o local.polls,
                                    !.now = local.now + 1,
                                    !.pc = "changed",
                                    !.atMount = NotMounting]
          /\ form' = EmptyForm
  /\ UNCHANGED <<polls, votes, nextId, last, rd, retired, page, dash>>

RECURSIVE WithoutId(_, _)
WithoutId(list, id) ==
  IF list = <<>> THEN <<>>
  ELSE IF Head(list).id = id THEN WithoutId(Tail(list), id)
  ELSE <<Head(list)>> \o WithoutId(Tail(list), id)

(* PollingApp.deletePoll, from the button of a listed poll *)
PollingApp_deletePoll(id) ==
  /\ local.pc = "ready"
  /\ \E k \in DOMAIN local.polls : local.polls[k].id = id
  /\ local' = [local EXCEPT !.polls = WithoutId(local.polls, id),
                            !.pc = "changed",
                            !.atMount = NotMounting]
  /\ UNCHANGED <<polls, votes, nextId, last, rd, retired, page, form, dash>>

FindPoll(list, id) ==
  LET hits == {k \in DOMAIN list : list[k].id = id} IN
  IF hits = {} THEN NoPoll ELSE list[CHOOSE k \in hits : \A j \in hits : k <= j]

(* EditPoll's mount and load effect for /edit/id: the poll is found and    *)
(* fills the form, or the router goes back to PollingApp                   *)
EditPoll_mount(id) ==
  LET foundPoll == IF local.storage = NoEntry THEN NoPoll
                   ELSE FindPoll(JSONparse(local.storage), id)
  IN
  /\ local.pc \in {"closed", "ready"}
  /\ IF foundPoll = NoPoll
     THEN /\ local' = MountedPollingApp(local.storage, local.now)
          /\ form' = EmptyForm
     ELSE /\ local' = [local EXCEPT !.pc = "edit", !.polls = <<>>, !.pending = NoPending,
                                    !.poll = foundPoll, !.atMount = NotMounting]
          /\ form' = FormOf(foundPoll.question, foundPoll.options)
  /\ UNCHANGED <<polls, votes, nextId, last, rd, retired, page, dash>>

UpdatedPolls(list, id, question, options) ==
  [k \in DOMAIN list |->
     IF list[k].id = id
     THEN [list[k] EXCEPT !.question = question, !.options = options]
     ELSE list[k]]

(* EditPoll.updatePoll *)
EditPoll_updatePoll ==
  /\ local.pc = "edit"
  /\ IF \/ ~validateForm(form.question, form.options)
        \/ local.poll = NoPoll
        \/ local.storage = NoEntry
     THEN UNCHANGED <<local, form>>
     ELSE /\ local' =
               MountedPollingApp(
                 JSONstringify(UpdatedPolls(JSONparse(local.storage), local.poll.id,
                                            Trim(form.question),
                                            FilterBlank(form.options))),
                 local.now)
          /\ form' = EmptyForm
  /\ UNCHANGED <<polls, votes, nextId, last, rd, retired, page, dash>>

(* The back and cancel buttons of EditPoll: router.push("/") *)
EditPoll_cancel ==
  /\ local.pc = "edit"
  /\ local' = MountedPollingApp(local.storage, local.now)
  /\ form' = EmptyForm
  /\ UNCHANGED <<polls, votes, nextId, last, rd, retired, page, dash>>

(* The tab is closed: the page's state is gone, localStorage stays *)
closeTab ==
  /\ local.pc # "closed"
  /\ local' = [local EXCEPT !.pc = "closed", !.polls = <<>>, !.pending = NoPending,
                            !.poll = NoPoll, !.atMount = NotMounting]
  /\ form' = EmptyForm
  /\ UNCHANGED <<polls, votes, nextId, last, rd, retired, page, dash>>

----------------------------------------------------------------------------

(* The votes specification: one owner (u1) creates, edits, publishes and   *)
(* deletes polls, a second user and anonymous callers try the same, and    *)
(* voters of every kind cast votes.                                        *)

Owners == {"u1", Anon}
Voters == {Anon, "u1"}
VoteTokens == {"t1"}
PollInputs == {<<Qhello, <<LA, LB>>>>, <<Qhello, <<LA, LB, LC>>>>, <<Qshort, <<LA, LB>>>>}

(* Share tokens that a step takes away from a poll that stays: cleared by  *)
(* disableSharing or replaced by generateShareLink.                        *)
RetiredBy(P, Q) ==
  {P[id].share_token : id \in {i \in DOMAIN P \cap DOMAIN Q :
                                 /\ P[i].share_token # NULL
                                 /\ Q[i].share_token # P[i].share_token}}

Next ==
  \/ \E c \in Voters, p \in PollIds, i \in OptionIndexes, s \in Sessions :
       castVote(c, p, i, s) /\ UNCHANGED page
  \/ \E c \in Owners, inp \in PollInputs :
       nextId <= VotePolls /\ createPoll(c, inp[1], inp[2])
  \/ \E c \in Callers, p \in PollIds, inp \in PollInputs :
       updatePoll(c, p, inp[1], inp[2])
  \/ \E c \in Callers, p \in PollIds : deletePoll(c, p)
  \/ \E c \in Callers, p \in PollIds, t \in VoteTokens :
       generateShareLink(c, p, t) /\ UNCHANGED retired
  \/ \E c \in Callers, p \in PollIds :
       disableSharing(c, p) /\ UNCHANGED retired

Spec == Init /\ [][Next]_vars

(* The sharing specification: polls are created, edited, published,       *)
(* unpublished and deleted; nobody votes.  retired collects the tokens     *)
(* taken away from a poll so far.                                          *)

SharePollInputs == {<<Qhello, <<LA, LB>>>>, <<Qpolls, <<LA, LB, LC>>>>}

NextShare ==
  \/ \E c \in Owners, inp \in SharePollInputs : createPoll(c, inp[1], inp[2])
  \/ \E c \in Callers, p \in PollIds, inp \in SharePollInputs :
       updatePoll(c, p, inp[1], inp[2])
  \/ \E c \in Callers, p \in PollIds : deletePoll(c, p)
  \/ \E c \in Callers, p \in PollIds, t \in Tokens :
       generateShareLink(c, p, t) /\ retired' = retired \cup RetiredBy(polls, polls')
  \/ \E c \in Callers, p \in PollIds :
       disableSharing(c, p) /\ retired' = retired \cup RetiredBy(polls, polls')

SpecShare == Init /\ [][NextShare]_vars

(* The statistics specification: the owner (u1) creates one poll,          *)
(* publishes and unpublishes it, anonymous voters vote on it from up to    *)
(* MaxStatVoters sessions, and the owner and an anonymous visitor read the *)
(* statistics and the total.                                               *)

SessionNames == <<"s1", "s2", "s3", "s4", "s5">>
StatSessions == {SessionNames[k] : k \in 1..MaxStatVoters}
StatIndexes == {0, 1, 2}
StatReaders == {Anon, "u1"}
StatPollInputs == {<<Qhello, <<LA, LB>>>>, <<Qhello, <<LA, LB, LC>>>>}

NextStats ==
  \/ \E inp \in StatPollInputs :
       DOMAIN polls = {SamplePollId} /\ createPoll("u1", inp[1], inp[2])
  \/ \E p \in PollIds \ {SamplePollId}, t \in VoteTokens :
       generateShareLink("u1", p, t) /\ UNCHANGED retired
  \/ \E p \in PollIds \ {SamplePollId} :
       disableSharing("u1", p) /\ UNCHANGED retired
  \/ \E p \in PollIds \ {SamplePollId}, i \in StatIndexes, s \in StatSessions :
       castVote(Anon, p, i, s) /\ UNCHANGED page
  \/ \E c \in StatReaders, p \in PollIds \ {SamplePollId}, rpcError \in BOOLEAN :
       getPollStatistics(c, p, rpcError)
  \/ \E c \in StatReaders, p \in PollIds \ {SamplePollId}, rpcError \in BOOLEAN :
       getPollTotalVotes(c, p, rpcError)

SpecStats == Init /\ [][NextStats]_vars

(* The reading specification: the owner (u1) creates one poll, publishes   *)
(* and unpublishes it, anonymous voters vote on it, and the owner or an    *)
(* anonymous visitor reads it with its statistics while they do.           *)

ReadIndexes == {0, 1}
ReadSessions == {NULL, "s1"}

NextRead ==
  \/ \E inp \in SharePollInputs :
       DOMAIN polls = {SamplePollId} /\ createPoll("u1", inp[1], inp[2])
  \/ \E p \in PollIds \ {SamplePollId}, t \in VoteTokens :
       generateShareLink("u1", p, t) /\ UNCHANGED retired
  \/ \E p \in PollIds \ {SamplePollId} :
       disableSharing("u1", p) /\ UNCHANGED retired
  \/ \E p \in PollIds \ {SamplePollId}, i \in ReadIndexes, s \in Sessions :
       castVote(Anon, p, i, s) /\ UNCHANGED page
  \/ \E c \in StatReaders, p \in PollIds \ {SamplePollId}, s \in ReadSessions :
       getPollWithStats(c, p, s)
  \/ \E c \in StatReaders, t \in VoteTokens, s \in ReadSessions :
       getPollByShareTokenWithStats(c, t, s)
  \/ \E c \in StatReaders : getUserPollsWithStats(c)
  \/ \E p \in PollIds, rpcError \in BOOLEAN : awaitTotalVotes(p, rpcError)
  \/ \E p \in PollIds, rpcError \in BOOLEAN : awaitStatistics(p, rpcError)
  \/ \E p \in PollIds, rpcError \in BOOLEAN : awaitUserVote(p, rpcError)
  \/ returnWithStats

SpecRead == Init /\ [][NextRead]_vars

(* The share-button specification: the sharing specification with the     *)
(* ShareButton's handlers next to the DatabaseService calls.               *)

NextButton ==
  \/ \E c \in Owners, inp \in SharePollInputs : createPoll(c, inp[1], inp[2])
  \/ \E c \in Callers, p \in PollIds, inp \in SharePollInputs :
       updatePoll(c, p, inp[1], inp[2])
  \/ \E c \in Callers, p \in PollIds : deletePoll(c, p)
  \/ \E c \in Callers, p \in PollIds, t \in Tokens :
       generateShareLink(c, p, t) /\ UNCHANGED retired
  \/ \E c \in Callers, p \in PollIds :
       disableSharing(c, p) /\ UNCHANGED retired
  \/ \E c \in Callers, p \in PollIds, t \in Tokens, threw \in BOOLEAN, l \in Tokens :
       ShareButton_generateShareLink(c, p, t, threw, l)
  \/ \E c \in Callers, p \in PollIds : ShareButton_disableSharing(c, p)

SpecButton == Init /\ [][NextButton]_vars

(* The dashboard specification: a user (u1) opens the dashboard, creates   *)
(* and deletes polls (here or in another tab), and presses the share       *)
(* buttons of the listed polls, signed in or after the session has ended.  *)

DashboardUsers == {"u1"}
DashboardSessions == {"u1", Anon}
DashPollInputs == {<<Qhello, <<LA, LB>>>>}

(* ShareButton renders the generate button unless the poll is public with  *)
(* a token, and the disable button otherwise.                              *)
ShowsGenerate(poll) == ~poll.is_public \/ poll.share_token \in {NULL, Undefined}

NextDash ==
  \/ \E c \in DashboardUsers, inp \in DashPollInputs : createPoll(c, inp[1], inp[2])
  \/ \E c \in DashboardUsers, p \in PollIds : deletePoll(c, p)
  \/ \E c \in DashboardSessions : loadPollsWithStats(c)
  \/ \E c \in DashboardSessions, p \in DOMAIN dash, t \in Tokens,
        threw \in BOOLEAN, l \in Tokens :
       /\ ShowsGenerate(dash[p])
       /\ ShareButton_generateShareLink(c, p, t, threw, l)
  \/ \E c \in DashboardSessions, p \in DOMAIN dash :
       /\ ~ShowsGenerate(dash[p])
       /\ ShareButton_disableSharing(c, p)

SpecDash == Init /\ [][NextDash]_vars

(* The editing specification: a user (u1) and anonymous callers create,   *)
(* edit and delete polls with valid and invalid questions and option lists.*)

LPadded == <<" ", "A", " ">>
LD == <<"D">>
LE == <<"E">>
LF == <<"F">>
LG == <<"G">>
EditQuestionInputs == {Qhello, <<" ">> \o Qhello \o <<" ">>, Qshort, <<" ", "a", "b", "c", " ">>}
EditOptionInputs ==
  { <<LA, LB>>,
    <<LPadded, LB, LA>>,
    <<LA, LB, LC, LD, LE, LF>>,
    <<LA, LB, LC, LD, LE, LF, LG>>,
    <<LA, LSpace, LB>>,
    <<LA, LEmpty>>,
    <<LSpace, LEmpty>>,
    <<>> }

NextEdit ==
  \/ \E c \in Owners, q \in EditQuestionInputs, o \in EditOptionInputs :
       createPoll(c, q, o)
  \/ \E c \in Owners, p \in PollIds, q \in EditQuestionInputs, o \in EditOptionInputs :
       updatePoll(c, p, q, o)
  \/ \E c \in Owners, p \in PollIds : deletePoll(c, p)

SpecEdit == Init /\ [][NextEdit]_vars

(* The ownership specification: the owner (u1) creates a poll; the owner,  *)
(* another user (u2) and anonymous callers then try to edit, publish,      *)
(* unpublish and delete the existing polls, the ownerless sample poll      *)
(* included, while anonymous voters vote.                                  *)

OwnerPollInput == <<Qpolls, <<LA, LB, LC>>>>

NextOwner ==
  \/ nextId <= VotePolls /\ createPoll("u1", Qhello, <<LA, LB>>)
  \/ \E c \in Callers, p \in DOMAIN polls :
       updatePoll(c, p, OwnerPollInput[1], OwnerPollInput[2])
  \/ \E c \in Callers, p \in PollIds : deletePoll(c, p)
  \/ \E c \in Callers, p \in DOMAIN polls, t \in Tokens :
       generateShareLink(c, p, t) /\ UNCHANGED retired
  \/ \E c \in Callers, p \in DOMAIN polls :
       disableSharing(c, p) /\ UNCHANGED retired
  \/ \E p \in DOMAIN polls, s \in Sessions : castVote(Anon, p, 0, s) /\ UNCHANGED page

SpecOwner == Init /\ [][NextOwner]_vars

(* The public page specification: the owner creates a poll, publishes and  *)
(* unpublishes polls; one browser opens the page behind a share link any   *)
(* number of times, selects options and votes.  Every vote is cast by that *)
(* browser.                                                                *)

PageVisitors == {Anon, "u1"}
PageTokens == {"t1"}

NextPage ==
  \/ nextId <= VotePolls /\ createPoll("u1", Qhello, <<LA, LB>>)
  \/ \E p \in DOMAIN polls, t \in PageTokens :
       generateShareLink("u1", p, t) /\ UNCHANGED retired
  \/ \E p \in DOMAIN polls : disableSharing("u1", p) /\ UNCHANGED retired
  \/ \E c \in PageVisitors, t \in PageTokens, s \in Sessions,
        loadError \in BOOLEAN, rpcError \in BOOLEAN :
       loadPoll(c, t, s, loadError, rpcError)
  \/ \E i \in 0 .. (MaxOptions - 1) : setSelectedOption(i)
  \/ \E c \in PageVisitors : handleVote(c)
  \/ \E c \in PageVisitors, reloadError \in BOOLEAN : handleVoteReturns(c, reloadError)

SpecPage == Init /\ [][NextPage]_vars

(* The form specification: the create form, or the edit form loaded with a *)
(* poll of two to six options, under any sequence of its input handlers.   *)

FormQuestions == {<<>>, Qshort, Qhello}
FormValues == {LA, LEmpty}
SixOptions == <<LA, LB, LC, LD, LE, LF>>
FormLoads == {<<Qhello, <<LA, LB>>>>, <<Qhello, SixOptions>>}

NextForm ==
  \/ \E q \in FormQuestions : setQuestion(q)
  \/ addOption
  \/ \E i \in 0 .. (MaxOptions - 1) : removeOption(i)
  \/ \E i \in 0 .. (MaxOptions - 1), v \in FormValues : updateOption(i, v)
  \/ \E inp \in FormLoads : loadIntoForm(inp[1], inp[2])

SpecForm == Init /\ [][NextForm]_vars

(* The localStorage specification: one browser opens PollingApp, fills the *)
(* form, creates and deletes polls, edits them on the EditPoll page, and   *)
(* closes the tab at any point.                                            *)

LocalQuestions == {Qshort, Qhello}
LocalValues == {LA, LB}
LocalDates == {"11/2/2026"}

NextLocal ==
  \/ PollingApp_mount
  \/ loadEffect
  \/ saveEffect
  \/ renderLoaded
  \/ \E q \in LocalQuestions : local.pc \in {"ready", "edit"} /\ setQuestion(q)
  \/ \E i \in 0 .. (RequiredOptions - 1), v \in LocalValues :
       local.pc \in {"ready", "edit"} /\ updateOption(i, v)
  \/ \E d \in LocalDates : PollingApp_createPoll(d)
  \/ \E id \in 1 .. MaxPolls : PollingApp_deletePoll(id)
  \/ \E id \in 1 .. MaxPolls : EditPoll_mount(id)
  \/ EditPoll_updatePoll
  \/ EditPoll_cancel
  \/ closeTab

SpecLocal == Init /\ [][NextLocal]_vars

----------------------------------------------------------------------------
(* Claims about the vote store *)

AlreadyVoted == "You have already voted on this poll"
FailedToCastVote == "Failed to cast vote"

RowsFor(V, pollId, voterSession) ==
  LET rows == {v \in BagToSet(V) : v.poll_id = pollId /\ v.voter_session = voterSession}
  IN BagCardinality([v \in rows |-> V[v]])

(* C1: in every reachable state the votes table holds at most one row for  *)
(* each (poll_id, voter_session) pair.                                     *)
C1_OneVotePerPollAndSession ==
  \A p \in PollIds, s \in Sessions : RowsFor(votes, p, s) <= 1

(* C1 witness: two sessions have voted on one poll and a further castVote  *)
(* was rejected as a duplicate.                                            *)
C1_Witness ==
  /\ last.op = "castVote" /\ last.result = AlreadyVoted
  /\ \E p \in PollIds : \A s \in Sessions : RowsFor(votes, p, s) = 1

(* C2 as stated: whenever a vote exists for (pollId, voterSession), a       *)
(* further castVote with that pair adds no row, leaves the vote unchanged  *)
(* and fails with the already-voted error, never the generic one.          *)
C2_AlwaysAlreadyVoted ==
  [][(last'.op = "castVote" /\ UniqueViolation(votes, last'.poll, last'.session))
       => (votes' = votes /\ last'.result = AlreadyVoted)]_vars

(* C2 amended: whenever a vote exists for (pollId, voterSession), a further *)
(* castVote with that pair adds no row and leaves the vote unchanged; it   *)
(* fails with the already-voted error when the poll is public at the       *)
(* insert, and with the generic error when the poll is no longer public    *)
(* (the insert policy is checked before the uniqueness constraint).        *)
C2_DuplicateVoteRejected ==
  [][(last'.op = "castVote" /\ UniqueViolation(votes, last'.poll, last'.session))
       => /\ votes' = votes
          /\ last'.result = IF polls[last'.poll].is_public
                             THEN AlreadyVoted ELSE FailedToCastVote]_vars

(* C2 witness: a castVote has been answered with the already-voted error   *)
(* while the session's vote is in the table.                               *)
C2_Witness ==
  /\ last.op = "castVote" /\ last.result = AlreadyVoted
  /\ RowsFor(votes, last.poll, last.session) = 1

(* C3 as stated: a castVote whose optionIndex is below 0 or not below the   *)
(* poll's number of options fails and records no vote.                     *)
C3_OptionIndexChecked ==
  [][last'.op = "castVote" =>
       \A c \in Callers, p \in PollIds, i \in OptionIndexes, s \in Sessions :
         (/\ p \in DOMAIN polls
          /\ (i < 0 \/ i >= Len(polls[p].options))
          /\ castVote(c, p, i, s))
           => (votes' = votes /\ last'.result # "ok")]_vars

(* C4 as stated: in every reachable state every stored vote's option_index *)
(* is a valid zero-based index into its poll's current options.            *)
C4_VotesWithinOptions ==
  \A v \in BagToSet(votes) :
    /\ v.poll_id \in DOMAIN polls
    /\ 0 <= v.option_index
    /\ v.option_index < Len(polls[v.poll_id].options)

(* C19 as stated: castVote on a pollId for which no poll exists records no *)
(* vote and fails with a not-found error, one that is neither the          *)
(* already-voted error nor the generic failure.                            *)
C19_AbsentPollNotFound ==
  [][(last'.op = "castVote" /\ last'.poll \notin DOMAIN polls)
       => /\ votes' = votes
          /\ last'.result \notin {"ok", AlreadyVoted, FailedToCastVote}]_vars

(* The caller may read the votes of the poll: it is public or the caller's *)
Readable(P, caller, pollId) ==
  /\ pollId \in DOMAIN P
  /\ P[pollId].is_public \/ (caller # Anon /\ P[pollId].user_id = caller)

(* The stored vote of (pollId, voterSession) as getUserVote gives it:      *)
(* <<index>>, or <<>> when there is none                                   *)
StoredVote(V, pollId, voterSession) ==
  LET rows == {v \in BagToSet(V) : v.poll_id = pollId /\ v.voter_session = voterSession}
  IN IF rows = {} THEN <<>> ELSE <<(CHOOSE v \in rows : TRUE).option_index>>

(* Every vote row whose poll exists after the step is there after it *)
VotesKept ==
  \A v \in BagToSet(votes) :
    v.poll_id \in DOMAIN polls' => (v \in BagToSet(votes') /\ votes'[v] = votes[v])

(* C20 as stated: a recorded vote is never changed or removed while its    *)
(* poll exists, and getUserVote(p, s) returns the recorded index in every  *)
(* state in which poll p exists, null exactly when no vote exists for      *)
(* (p, s).                                                                 *)
C20_UserVoteAlwaysReturned ==
  /\ [](\A c \in Voters, p \in DOMAIN polls, s \in Sessions :
          getUserVote(polls, votes, c, p, s, FALSE) = StoredVote(votes, p, s))
  /\ [][VotesKept]_vars

(* C20 amended: a recorded vote is never changed or removed while its poll *)
(* exists; getUserVote(p, s) returns the recorded index in every state in  *)
(* which poll p exists and the caller may read its votes (the poll is      *)
(* public or the caller owns it); it returns null when no vote exists for  *)
(* (p, s), when the caller may not read the poll's votes, and when the     *)
(* query fails.                                                            *)
C20_UserVoteReturnedWhenReadable ==
  /\ [](\A c \in Voters, p \in DOMAIN polls, s \in Sessions :
          /\ getUserVote(polls, votes, c, p, s, FALSE) =
               IF Readable(polls, c, p) THEN StoredVote(votes, p, s) ELSE <<>>
          /\ getUserVote(polls, votes, c, p, s, TRUE) = <<>>)
  /\ [][VotesKept]_vars

(* C20 witness: a session's vote is stored on a poll that is no longer     *)
(* public; the owner reads it with getUserVote, an anonymous caller gets   *)
(* null.                                                                   *)
C20_Witness ==
  \E p \in DOMAIN polls, s \in Sessions :
    /\ RowsFor(votes, p, s) = 1
    /\ ~polls[p].is_public
    /\ getUserVote(polls, votes, "u1", p, s, FALSE) = StoredVote(votes, p, s)
    /\ getUserVote(polls, votes, Anon, p, s, FALSE) = <<>>

----------------------------------------------------------------------------
(* Claims about the statistics *)

RECURSIVE SumPercentages(_)
SumPercentages(statistics) ==
  IF statistics = <<>> THEN 0
  ELSE Head(statistics).percentage + SumPercentages(Tail(statistics))

RECURSIVE SumVoteCounts(_)
SumVoteCounts(statistics) ==
  IF statistics = <<>> THEN 0
  ELSE Head(statistics).vote_count + SumVoteCounts(Tail(statistics))

Abs(x) == IF x < 0 THEN -x ELSE x

(* The number of the poll's recorded votes, all or with one option index *)
Recorded(pollId) == get_poll_total_votes(votes, pollId)
RecordedFor(pollId, index) == VoteCount(votes, pollId, index)
VotedIndexes(pollId) == {v.option_index : v \in BagToSet(PollVotes(votes, pollId))}
EntryIndexes(statistics) == {statistics[k].option_index : k \in 1..Len(statistics)}

(* The caller may read the poll's votes: the poll is public or the caller's *)
MayReadVotes(caller, pollId) ==
  /\ pollId \in DOMAIN polls
  /\ polls[pollId].is_public \/ (caller # Anon /\ polls[pollId].user_id = caller)

StatisticsRead == last.op = "getPollStatistics" /\ ~last.rpcError
TotalRead == last.op = "getPollTotalVotes" /\ ~last.rpcError

(* Ascending option-index order, one entry at most per index; each entry's *)
(* vote_count is the number of the poll's votes with that index and its    *)
(* percentage is count / total * 100 rounded to 2 decimals.                *)
EntriesAccurate(statistics, pollId) ==
  /\ \A k \in 1..(Len(statistics) - 1) :
       statistics[k].option_index < statistics[k + 1].option_index
  /\ \A k \in 1..Len(statistics) :
       /\ statistics[k].vote_count = RecordedFor(pollId, statistics[k].option_index)
       /\ 2 * Abs(statistics[k].percentage * Recorded(pollId)
                    - statistics[k].vote_count * 10000) <= Recorded(pollId)

(* Options [A, B] with votes [0, 0, 1] from three distinct sessions *)
ScenarioAB(pollId) ==
  /\ pollId \in DOMAIN polls
  /\ polls[pollId].options = <<LA, LB>>
  /\ Recorded(pollId) = 3
  /\ RecordedFor(pollId, 0) = 2
  /\ RecordedFor(pollId, 1) = 1
  /\ \A s \in StatSessions : RowsFor(votes, pollId, s) <= 1

ScenarioABStatistics ==
  << [option_index |-> 0, vote_count |-> 2, percentage |-> 6667],
     [option_index |-> 1, vote_count |-> 1, percentage |-> 3333] >>

(* C5 as stated: in every PollWithStats value returned by getPollWithStats,*)
(* getPollByShareTokenWithStats or getUserPollsWithStats, total_votes is   *)
(* the sum of vote_count over its statistics entries, votes cast during    *)
(* the read and a failing total or statistics query notwithstanding.       *)
C5_TotalIsSumOfCounts ==
  rd.pc = "returned" =>
    \A id \in DOMAIN rd.value :
      rd.value[id].total_votes = SumVoteCounts(rd.value[id].statistics)

(* C6 as stated: for any poll and any recorded votes the statistics query  *)
(* returns, in ascending option-index order, one entry per voted option    *)
(* index with the count of the poll's votes of that index and the rounded  *)
(* percentage; for options [A, B] and votes [0, 0, 1] it returns           *)
(* [{0, 2, 66.67}, {1, 1, 33.33}] and the total is 3.                      *)
C6_StatisticsOfRecordedVotes ==
  /\ StatisticsRead =>
       /\ EntriesAccurate(last.value, last.poll)
       /\ EntryIndexes(last.value) = VotedIndexes(last.poll)
       /\ ScenarioAB(last.poll) => last.value = ScenarioABStatistics
  /\ (TotalRead /\ ScenarioAB(last.poll)) => last.value = 3

(* C6 amended: for a caller who may read the poll's votes (the poll is     *)
(* public or the caller owns it) the statistics query returns, in          *)
(* ascending option-index order, one entry per voted option index with the *)
(* count of the poll's votes of that index and the rounded percentage, and *)
(* for options [A, B] and votes [0, 0, 1] it returns                       *)
(* [{0, 2, 66.67}, {1, 1, 33.33}] with total 3; for any other caller it    *)
(* returns no entry and the total 0.                                       *)
C6_StatisticsOfReadableVotes ==
  /\ StatisticsRead =>
       IF MayReadVotes(last.caller, last.poll)
       THEN /\ EntriesAccurate(last.value, last.poll)
            /\ EntryIndexes(last.value) = VotedIndexes(last.poll)
            /\ ScenarioAB(last.poll) => last.value = ScenarioABStatistics
       ELSE last.value = <<>>
  /\ TotalRead =>
       IF MayReadVotes(last.caller, last.poll)
       THEN /\ last.value = Recorded(last.poll)
            /\ ScenarioAB(last.poll) => last.value = 3
       ELSE last.value = 0

(* C6 witness: the statistics of the [A, B] poll with votes [0, 0, 1] have *)
(* been read and are [{0, 2, 66.67}, {1, 1, 33.33}].                       *)
C6_Witness ==
  /\ StatisticsRead
  /\ ScenarioAB(last.poll)
  /\ last.value = ScenarioABStatistics

(* C7 as stated: whenever the poll has at least one vote, the percentages  *)
(* the statistics query returns sum to 100 within 0.005 per returned entry *)
(* (percentages are in hundredths of a percent here).                      *)
C7_PercentagesSumTo100 ==
  (StatisticsRead /\ Recorded(last.poll) > 0)
    => 2 * Abs(SumPercentages(last.value) - 10000) <= Len(last.value)

(* C7 amended: whenever the poll has at least one vote and the caller may  *)
(* read the poll's votes (the poll is public or the caller owns it), the   *)
(* percentages the statistics query returns sum to 100 within 0.005 per    *)
(* returned entry; for any other caller the query returns no entry.        *)
C7_ReadablePercentagesSumTo100 ==
  (StatisticsRead /\ Recorded(last.poll) > 0)
    => IF MayReadVotes(last.caller, last.poll)
       THEN /\ Len(last.value) > 0
            /\ 2 * Abs(SumPercentages(last.value) - 10000) <= Len(last.value)
       ELSE last.value = <<>>

(* C7 witness: three options with one vote each were read as 33.33 each,   *)
(* which sum to 99.99.                                                     *)
C7_Witness ==
  /\ StatisticsRead
  /\ Len(last.value) = 3
  /\ SumPercentages(last.value) = 9999

PollWithStatistics ==
  [id |-> last.poll, options |-> polls[last.poll].options, statistics |-> last.value]

StatisticsOfPoll == last.op = "getPollStatistics" /\ last.poll \in DOMAIN polls

(* C22: for a poll and the statistics read for it, getWinningOption (page  *)
(* and dashboard) returns no winner when the statistics carry no vote, and *)
(* otherwise one option: its votes are the largest vote count, it is the   *)
(* option with the lowest index among those with that count, and the       *)
(* dashboard names the same option.  When the statistics were read without *)
(* error by a caller who may read the votes, "no vote" is no recorded vote *)
(* and the winner's votes are the largest number recorded for an index.    *)
C22_WinnerIsLowestIndexWithMaximum ==
  StatisticsOfPoll =>
    LET poll == PollWithStatistics
        winner == getWinningOption(poll)
        entries == 1..Len(poll.statistics)
    IN /\ SumVoteCounts(poll.statistics) = 0 => winner = NoWinner
       /\ SumVoteCounts(poll.statistics) > 0 =>
            /\ winner # NoWinner
            /\ \A k \in entries : poll.statistics[k].vote_count <= winner.votes
            /\ \E k \in entries :
                 /\ poll.statistics[k].option_index = winner.optionIndex
                 /\ poll.statistics[k].vote_count = winner.votes
            /\ \A k \in entries :
                 poll.statistics[k].vote_count = winner.votes
                   => winner.optionIndex <= poll.statistics[k].option_index
            /\ winner.option = OptionAt(poll.options, winner.optionIndex)
       /\ UserDashboard_getWinningOption(poll) =
            (IF winner = NoWinner THEN NoWinner
             ELSE [option |-> winner.option, votes |-> winner.votes,
                   percentage |-> winner.percentage])
       /\ (~last.rpcError /\ MayReadVotes(last.caller, last.poll)) =>
            /\ (winner = NoWinner) <=> (Recorded(last.poll) = 0)
            /\ winner # NoWinner =>
                 /\ winner.votes = RecordedFor(last.poll, winner.optionIndex)
                 /\ \A i \in VotedIndexes(last.poll) :
                      /\ RecordedFor(last.poll, i) <= winner.votes
                      /\ RecordedFor(last.poll, i) = winner.votes
                           => winner.optionIndex <= i

(* C22 witness: statistics with two options tied for the maximum have been *)
(* read, and the winner is the one with the lower index.                   *)
C22_Witness ==
  /\ StatisticsOfPoll
  /\ Len(last.value) >= 2
  /\ \E j, k \in 1..Len(last.value) :
       /\ j < k
       /\ last.value[j].vote_count = last.value[k].vote_count
       /\ getWinningOption(PollWithStatistics).votes = last.value[j].vote_count
       /\ getWinningOption(PollWithStatistics).optionIndex = last.value[j].option_index

(* C23 as stated: a DatabaseService operation that meets a storage or      *)
(* availability error fails; getPollStatistics and getPollTotalVotes       *)
(* return their empty statistics and their 0 only after the store was      *)
(* read.                                                                   *)
C23_ErrorsPropagate ==
  (last.op \in {"getPollStatistics", "getPollTotalVotes"} /\ last.rpcError)
    => last.result # "ok"
----------------------------------------------------------------------------
(* Claims about share links *)

Resolves(P, shareToken) ==
  \E r \in Callers : getPollByShareToken(P, r, shareToken) # NoPoll

(* C9: for an existing poll owned by the caller, right after               *)
(* generateShareLink(id) returns token t, getPollByShareToken(t) returns   *)
(* that poll, with its id, question and options, to every caller; right    *)
(* after the owner's disableSharing(id) on a poll holding token t,         *)
(* getPollByShareToken(t) returns null.                                    *)
C9_PublishResolvesUnpublishHides ==
  [][/\ last'.op = "generateShareLink" =>
          \A c \in Callers, p \in PollIds, t \in Tokens :
            (/\ UpdateMatches(polls, c, p)
             /\ generateShareLink(c, p, t)
             /\ last'.result = "ok")
              => \A r \in Callers :
                   LET o == getPollByShareToken(polls', r, t) IN
                   /\ o # NoPoll
                   /\ o.id = p
                   /\ o.question = polls[p].question
                   /\ o.options = polls[p].options
     /\ last'.op = "disableSharing" =>
          \A c \in Callers, p \in PollIds :
            (/\ UpdateMatches(polls, c, p)
             /\ polls[p].share_token # NULL
             /\ disableSharing(c, p))
              => ~Resolves(polls', polls[p].share_token)]_vars

(* C9 witness: sharing was disabled on a poll whose token had been         *)
(* generated and then retired, and the token resolves to nothing.          *)
C9_Witness ==
  /\ last.op = "disableSharing"
  /\ retired # {}
  /\ \A t \in retired : ~Resolves(polls, t)
  /\ \E p \in DOMAIN polls : polls[p].user_id # NULL /\ ~polls[p].is_public

(* C10 as stated: a token resolves only to a public poll that holds it,    *)
(* and a token cleared by disableSharing or replaced by generateShareLink  *)
(* never resolves to a poll again.                                         *)
C10_RetiredTokenNeverResolves ==
  /\ \A r \in Callers, t \in Tokens :
       LET o == getPollByShareToken(polls, r, t) IN
       o # NoPoll => (polls[o.id].is_public /\ polls[o.id].share_token = t)
  /\ \A t \in retired : ~Resolves(polls, t)

(* C10 amended: getPollByShareToken(t) returns a poll only if that poll is *)
(* public and holds t at read time; a token that resolves to nothing (one  *)
(* cleared or replaced included) comes to resolve only by a successful     *)
(* generateShareLink that stores that token value again.                   *)
C10_ResolvesOnlyStoredToken ==
  [][/\ \A r \in Callers, t \in Tokens :
          LET o == getPollByShareToken(polls', r, t) IN
          o # NoPoll => (polls'[o.id].is_public /\ polls'[o.id].share_token = t)
     /\ \A t \in Tokens :
          (~Resolves(polls, t) /\ Resolves(polls', t))
            => (/\ last'.op = "generateShareLink"
                /\ last'.result = "ok"
                /\ last'.shareToken = t)]_vars

(* C10 witness: a token has been retired and does not resolve while        *)
(* another token does.                                                     *)
C10_Witness ==
  /\ \E t \in retired : ~Resolves(polls, t)
  /\ \E t \in Tokens : Resolves(polls, t)

C24_ShareTokensUnique ==
  /\ [](\A p, q \in DOMAIN polls :
          (p # q /\ polls[p].share_token # NULL)
            => polls[p].share_token # polls[q].share_token)
  /\ [][last'.op = "generateShareLink" =>
          \A c \in Callers, p \in DOMAIN polls, t \in Tokens :
            (/\ UpdateMatches(polls, c, p)
             /\ ShareTokenTaken(polls, p, t)
             /\ generateShareLink(c, p, t))
              => (polls' = polls /\ last'.result # "ok")]_vars

(* C24 witness: a generateShareLink has failed on a token that another     *)
(* poll holds, and both polls are as they were.                            *)
C24_Witness ==
  /\ last.op = "generateShareLink"
  /\ last.result = "Failed to generate share link"
  /\ \E p, q \in DOMAIN polls :
       /\ p # q
       /\ polls[p].share_token # NULL
       /\ polls[q].share_token # polls[p].share_token
----------------------------------------------------------------------------
(* Claims about creating and editing polls *)

ValidQuestion(question) == Len(Trim(question)) >= MinQuestionLen

NonBlankOptions(options) == \A k \in 1..Len(options) : IsNonBlank(options[k])

ValidInput(question, options) ==
  /\ ValidQuestion(question)
  /\ Len(options) >= MinOptions /\ Len(options) <= MaxOptions
  /\ NonBlankOptions(options)

(* C12: for every question of at least 5 characters after trimming and     *)
(* every list of 2 to 6 non-blank options, createPoll by an authenticated  *)
(* user succeeds; the stored and the returned poll have the trimmed        *)
(* question, exactly the supplied options in their order, the caller as    *)
(* owner, is_public false and no share token, and getPollById then returns *)
(* the same options in the same order.                                     *)
C12_ValidCreateRoundTrips ==
  [][last'.op = "createPoll" =>
       \A c \in Owners \ {Anon}, q \in EditQuestionInputs, o \in EditOptionInputs :
         (ValidInput(q, o) /\ createPoll(c, q, o))
           => /\ last'.result = "ok"
              /\ nextId \in DOMAIN polls' /\ nextId \notin DOMAIN polls
              /\ polls'[nextId] = [question |-> Trim(q), options |-> o, user_id |-> c,
                                   is_public |-> FALSE, share_token |-> NULL]
              /\ last'.poll = [id |-> nextId, question |-> Trim(q), options |-> o,
                               user_id |-> c, is_public |-> FALSE,
                               share_token |-> NULL]
              /\ getPollById(polls', c, nextId).options = o]_vars

(* C12 witness: a poll of six options, the first one padded with spaces,   *)
(* was created and its owner reads it back as it was returned.             *)
C12_Witness ==
  /\ last.op = "createPoll" /\ last.result = "ok"
  /\ \E p \in DOMAIN polls :
       /\ Len(polls[p].options) = MaxOptions
       /\ \E q \in DOMAIN polls : polls[q].options = <<LPadded, LB, LA>>
  /\ getPollById(polls, last.poll.user_id, last.poll.id) = last.poll

(* C13: createPoll and updatePoll fail, storing or changing nothing,        *)
(* whenever the question has fewer than 5 characters after trimming        *)
(* (last.question is the trimmed question of the call).                    *)
C13_ShortQuestionRejected ==
  [][(/\ last'.op \in {"createPoll", "updatePoll"}
      /\ Len(last'.question) < MinQuestionLen)
       => (polls' = polls /\ nextId' = nextId /\ last'.result # "ok")]_vars

(* C13 witness: the owner's update of an existing poll was rejected by the *)
(* question's length check.                                                *)
C13_Witness ==
  /\ last.op = "updatePoll"
  /\ last.result # "ok"
  /\ Len(last.question) < MinQuestionLen
  /\ last.message = "polls_question_check"
  /\ \E p \in DOMAIN polls : polls[p].user_id # NULL

Remaining(options) == Cardinality({k \in 1..Len(options) : IsNonBlank(options[k])})

(* C14 as stated: createPoll and updatePoll fail, storing or changing       *)
(* nothing, whenever fewer than 2 options remain after the blank options   *)
(* are filtered out, and no stored poll contains a blank option.           *)
C14_FewOptionsRejected ==
  [][/\ last'.op = "createPoll" =>
          \A c \in Owners, q \in EditQuestionInputs, o \in EditOptionInputs :
            (Remaining(o) < MinOptions /\ createPoll(c, q, o))
              => (polls' = polls /\ nextId' = nextId /\ last'.result # "ok")
     /\ last'.op = "updatePoll" =>
          \A c \in Owners, p \in PollIds, q \in EditQuestionInputs,
             o \in EditOptionInputs :
            (Remaining(o) < MinOptions /\ updatePoll(c, p, q, o))
              => (polls' = polls /\ last'.result # "ok")
     /\ \A id \in DOMAIN polls' : NonBlankOptions(polls'[id].options)]_vars

(* C15 as stated: every stored poll has between 2 and 6 options in every   *)
(* reachable state; createPoll and updatePoll fail, storing or changing    *)
(* nothing, when more than 6 options are supplied.                         *)
C15_OptionCountBounded ==
  [][/\ last'.op = "createPoll" =>
          \A c \in Owners, q \in EditQuestionInputs, o \in EditOptionInputs :
            (Len(o) > MaxOptions /\ createPoll(c, q, o))
              => (polls' = polls /\ nextId' = nextId /\ last'.result # "ok")
     /\ last'.op = "updatePoll" =>
          \A c \in Owners, p \in PollIds, q \in EditQuestionInputs,
             o \in EditOptionInputs :
            (Len(o) > MaxOptions /\ updatePoll(c, p, q, o))
              => (polls' = polls /\ last'.result # "ok")
     /\ \A id \in DOMAIN polls' :
          /\ Len(polls'[id].options) >= MinOptions
          /\ Len(polls'[id].options) <= MaxOptions]_vars

----------------------------------------------------------------------------
(* Claims about ownership *)

Owns(caller, pollId) ==
  pollId \in DOMAIN polls /\ caller # Anon /\ polls[pollId].user_id = caller

(* The poll's question, options, is_public and share_token and its votes   *)
(* are after the step what they were before it                             *)
Untouched(pollId) ==
  /\ pollId \in DOMAIN polls'
  /\ polls'[pollId].question = polls[pollId].question
  /\ polls'[pollId].options = polls[pollId].options
  /\ polls'[pollId].is_public = polls[pollId].is_public
  /\ polls'[pollId].share_token = polls[pollId].share_token
  /\ PollVotes(votes', pollId) = PollVotes(votes, pollId)

(* C16: after any updatePoll, deletePoll, generateShareLink or             *)
(* disableSharing issued on a poll by a caller who is not its owner (an    *)
(* unauthenticated caller and an ownerless poll included), the poll's      *)
(* question, options, is_public and share_token and all of its votes are   *)
(* unchanged.                                                              *)
C16_NonOwnerChangesNothing ==
  [][/\ last'.op = "updatePoll" =>
          \A c \in Callers, p \in DOMAIN polls :
            (~Owns(c, p) /\ updatePoll(c, p, OwnerPollInput[1], OwnerPollInput[2]))
              => Untouched(p)
     /\ last'.op = "deletePoll" =>
          \A c \in Callers, p \in DOMAIN polls :
            (~Owns(c, p) /\ deletePoll(c, p)) => Untouched(p)
     /\ last'.op = "generateShareLink" =>
          \A c \in Callers, p \in DOMAIN polls, t \in Tokens :
            (~Owns(c, p) /\ generateShareLink(c, p, t)) => Untouched(p)
     /\ last'.op = "disableSharing" =>
          \A c \in Callers, p \in DOMAIN polls :
            (~Owns(c, p) /\ disableSharing(c, p)) => Untouched(p)]_vars

(* C16 witness: a generateShareLink on an existing poll has returned a     *)
(* token that no poll holds, so a caller other than the owner issued it,   *)
(* while the owner's poll is public under another token and has a vote.    *)
C16_Witness ==
  /\ last.op = "generateShareLink" /\ last.result = "ok"
  /\ \A p \in DOMAIN polls : polls[p].share_token # last.shareToken
  /\ \E p \in DOMAIN polls :
       /\ polls[p].user_id = "u1" /\ polls[p].is_public
       /\ get_poll_total_votes(votes, p) > 0

(* C17 as stated: updatePoll, deletePoll, generateShareLink and            *)
(* disableSharing on a poll the caller does not own fail with an error,    *)
(* and generateShareLink returns no token.                                 *)
C17_NonOwnerGetsError ==
  [][/\ last'.op = "updatePoll" =>
          \A c \in Callers, p \in DOMAIN polls :
            (~Owns(c, p) /\ updatePoll(c, p, OwnerPollInput[1], OwnerPollInput[2]))
              => last'.result # "ok"
     /\ last'.op = "deletePoll" =>
          \A c \in Callers, p \in DOMAIN polls :
            (~Owns(c, p) /\ deletePoll(c, p)) => last'.result # "ok"
     /\ last'.op = "generateShareLink" =>
          \A c \in Callers, p \in DOMAIN polls, t \in Tokens :
            (~Owns(c, p) /\ generateShareLink(c, p, t))
              => (last'.result # "ok" /\ last'.shareToken = NULL)
     /\ last'.op = "disableSharing" =>
          \A c \in Callers, p \in DOMAIN polls :
            (~Owns(c, p) /\ disableSharing(c, p)) => last'.result # "ok"]_vars

(* C18: after the owner's deletePoll(id) neither the poll nor any vote     *)
(* with poll_id = id exists, and the other polls and their votes are as    *)
(* before; every vote references an existing poll in every reachable       *)
(* state; deletePoll on an id that no poll has, deleted before or never    *)
(* there, succeeds and changes nothing.                                    *)
C18_DeleteCascadesAndIsIdempotent ==
  [][/\ \A v \in BagToSet(votes') : v.poll_id \in DOMAIN polls'
     /\ last'.op = "deletePoll" =>
          \A c \in Callers, p \in PollIds :
            deletePoll(c, p) =>
              /\ last'.result = "ok"
              /\ Owns(c, p) =>
                   /\ p \notin DOMAIN polls'
                   /\ PollVotes(votes', p) = EmptyBag
                   /\ \A q \in DOMAIN polls \ {p} :
                        /\ q \in DOMAIN polls' /\ polls'[q] = polls[q]
                        /\ PollVotes(votes', q) = PollVotes(votes, q)
              /\ p \notin DOMAIN polls => (polls' = polls /\ votes' = votes)]_vars

(* C18 witness: the poll the owner created is gone after a deletePoll, and *)
(* no vote is left.                                                        *)
C18_Witness ==
  /\ last.op = "deletePoll"
  /\ nextId > SamplePollId + 1
  /\ DOMAIN polls = {SamplePollId}
  /\ votes = EmptyBag

----------------------------------------------------------------------------
(* Claims about the public poll page *)

VotesOn(pollId) ==
  BagCardinality([v \in {w \in BagToSet(votes) : w.poll_id = pollId} |-> votes[v]])

(* C21 as stated: the page of one browser keeps a single voter-session     *)
(* identifier over reloads, so that whatever page loads and handleVote     *)
(* calls that browser makes, no poll ever holds a second vote from it.  In *)
(* SpecPage every vote comes from the one browser.                         *)
C21_OneVotePerBrowser ==
  \A pollId \in DOMAIN polls : VotesOn(pollId) <= 1

(* C25: a handleVote sets isVoting while its castVote is awaited; when it  *)
(* finishes, isVoting is false again, hasVoted is true if castVote failed  *)
(* with the already-voted error, and hasVoted is still false if castVote   *)
(* or the reload after it failed with any other error.                     *)
C25_HandleVoteOutcome ==
  /\ [](page.isVoting => (page.castResult # NULL /\ ~page.hasVoted))
  /\ [][\A c \in PageVisitors : handleVote(c) => page'.isVoting]_vars
  /\ [][\A c \in PageVisitors, reloadError \in BOOLEAN :
          handleVoteReturns(c, reloadError) =>
            /\ ~page'.isVoting
            /\ page.castResult = AlreadyVoted => page'.hasVoted
            /\ page.castResult \notin {"ok", AlreadyVoted} => ~page'.hasVoted
            /\ (page.castResult = "ok" /\ reloadError) => ~page'.hasVoted
            /\ (page.castResult = "ok" /\ ~reloadError) => page'.hasVoted]_vars

(* C25 witness: the page's castVote has failed with the already-voted      *)
(* error and handleVote has finished in the voted state.                   *)
C25_Witness ==
  /\ last.op = "castVote"
  /\ last.result = AlreadyVoted
  /\ last.session = page.voterSession
  /\ page.hasVoted
  /\ ~page.isVoting
  /\ page.castResult = NULL

(* C27: a vote is recorded only while its poll is public.  A step that     *)
(* adds a vote adds it to a poll that is public at that step, and a        *)
(* handleVote on a poll that is not public when the insert arrives (never  *)
(* published, or unpublished since the page loaded it through its share    *)
(* token) fails and adds no row.                                           *)
C27_VotesOnlyWhilePublic ==
  /\ [][votes' # votes =>
          /\ last'.op = "castVote"
          /\ last'.poll \in DOMAIN polls
          /\ polls[last'.poll].is_public]_vars
  /\ [][\A c \in PageVisitors :
          (/\ handleVote(c)
           /\ ~(page.poll.id \in DOMAIN polls /\ polls[page.poll.id].is_public))
            => (votes' = votes /\ page'.castResult = FailedToCastVote)]_vars

(* C27 witness: the page loaded a poll while it was public, the owner has  *)
(* unpublished it, and the page's vote has failed without a row.           *)
C27_Witness ==
  /\ page.poll # NoPoll
  /\ page.poll.is_public
  /\ ~polls[page.poll.id].is_public
  /\ page.castResult = FailedToCastVote
  /\ last.op = "castVote"
  /\ last.poll = page.poll.id
  /\ last.session = page.voterSession
  /\ RowsFor(votes, page.poll.id, page.voterSession) = 0

----------------------------------------------------------------------------
(* Claims about the poll forms *)

OptionInputsCount == Len(form.options)

(* C29: a form that starts with 2 to 6 option inputs keeps between 2 and 6 *)
(* of them under any sequence of addOption, removeOption and updateOption: *)
(* addOption adds one input below 6 and none at 6, removeOption removes    *)
(* one above 2 and none at 2, updateOption changes no count.               *)
C29_OptionInputsBetween2And6 ==
  /\ [](OptionInputsCount >= MinFormOptions /\ OptionInputsCount <= MaxOptions)
  /\ [][addOption =>
          Len(form'.options) = IF OptionInputsCount < MaxOptions
                               THEN OptionInputsCount + 1 ELSE OptionInputsCount]_vars
  /\ [][\A i \in 0 .. (MaxOptions - 1) : removeOption(i) =>
          Len(form'.options) = IF OptionInputsCount > MinFormOptions
                               THEN OptionInputsCount - 1 ELSE OptionInputsCount]_vars
  /\ [][\A i \in 0 .. (MaxOptions - 1), v \in FormValues : updateOption(i, v) =>
          Len(form'.options) = OptionInputsCount]_vars

(* C29 witness: the form has reached 6 inputs, the last one added by       *)
(* addOption and still empty.                                              *)
C29_Witness ==
  /\ OptionInputsCount = MaxOptions
  /\ form.options[MaxOptions] = LEmpty
  /\ form.options[1] = LA

StoredPolls == IF local.storage = NoEntry THEN <<>> ELSE JSONparse(local.storage)

(* C26 as stated: the forms submit only validated input, so every poll     *)
(* that the localStorage pages have created or updated has a question of   *)
(* at least 5 characters and at least 2 options.                           *)
C26_OnlyValidatedInputStored ==
  \A k \in DOMAIN StoredPolls :
    /\ Len(StoredPolls[k].question) >= MinFormQuestionLen
    /\ Len(StoredPolls[k].options) >= RequiredOptions

----------------------------------------------------------------------------
(* Claims about the localStorage pages *)

SamePollsBut(old, new, id) ==
  /\ Len(new) = Len(old)
  /\ \A k \in DOMAIN old :
       /\ new[k].id = old[k].id
       /\ new[k].createdAt = old[k].createdAt
       /\ old[k].id # id => new[k] = old[k]

(* C30: when PollingApp's mount effects and the render they ask for have   *)
(* run, the localStorage entry holds every poll it held when the page was  *)
(* opened; whenever PollingApp waits for the user the entry is its polls   *)
(* list, so after each createPoll and deletePoll; and a step of EditPoll   *)
(* changes, of the stored polls, only the question and options of the poll *)
(* being edited.                                                           *)
C30_StoredPollsSurvive ==
  /\ []((local.pc = "ready" /\ local.atMount.mounting) =>
          /\ local.storage # NoEntry
          /\ local.atMount.storage # NoEntry =>
               \A k \in DOMAIN JSONparse(local.atMount.storage) :
                 \E j \in DOMAIN StoredPolls :
                   StoredPolls[j] = JSONparse(local.atMount.storage)[k])
  /\ [](local.pc = "ready" => local.storage = JSONstringify(local.polls))
  /\ [][(local.pc = "edit" /\ local.storage # NoEntry) =>
          /\ local'.storage # NoEntry
          /\ SamePollsBut(JSONparse(local.storage), JSONparse(local'.storage),
                          local.poll.id)]_vars

(* C30 witness: PollingApp has mounted on an entry of two polls, one of    *)
(* them edited since it was created, and the entry still holds both.       *)
C30_Witness ==
  /\ local.pc = "ready"
  /\ local.atMount.mounting
  /\ local.atMount.storage # NoEntry
  /\ Len(StoredPolls) = 2
  /\ local.storage = local.atMount.storage
  /\ StoredPolls[1].question # StoredPolls[2].question

----------------------------------------------------------------------------
(* Claims about the dashboard *)

ShareButtonOps == {"ShareButton.generateShareLink", "ShareButton.disableSharing"}

SameToken(stored, shown) ==
  IF stored = NULL THEN shown \in {NULL, Undefined} ELSE shown = stored

(* C28: the dashboard's local share state follows the store: whenever a    *)
(* ShareButton handler changes the is_public or share_token the dashboard  *)
(* holds for a poll, the store holds that poll with the same is_public and *)
(* share_token, and the handler changes the entry of no other poll.        *)
C28_LocalShareStateFollowsStore ==
  [][last'.op \in ShareButtonOps =>
       /\ DOMAIN dash' = DOMAIN dash
       /\ \A p \in DOMAIN dash :
            dash'[p] # dash[p] =>
              /\ p \in DOMAIN polls'
              /\ polls'[p].is_public = dash'[p].is_public
              /\ SameToken(polls'[p].share_token, dash'[p].share_token)]_vars

====
